---- MODULE Spec2Model ----
(***************************************************************************)
(* Type inference of loopy expressions (loopy/expression.py):              *)
(* dtype_to_type_context, TypeInferenceMapper.combine and the map_*        *)
(* handlers of TypeInferenceMapper.                                        *)
(***************************************************************************)
EXTENDS Integers, Sequences, FiniteSets

VARIABLES dtypes, dtype, target, type_context, kernel, new_assignments, expr,
          outcome, pc, seen, resolved

vars == <<dtypes, dtype, target, type_context, kernel, new_assignments, expr,
          outcome, pc, seen, resolved>>

(***************************************************************************)
(* Bounds of the model.                                                    *)
(***************************************************************************)
\* longest sequence of dtypes handed to combine
MaxLen == 3
\* most children of a Sum or Product node
MaxChildren == 3
\* most infer calls made on one mapper
MaxCalls == 2

(***************************************************************************)
(* numpy dtypes.  kind/itemsize/isbuiltin/fields are the numpy attributes  *)
(* the code reads; obj is the identity of the Python object (what "is"     *)
(* compares).  Builtin dtypes are singletons, so their obj is 0.           *)
(***************************************************************************)
Native(k, n) ==
    [kind |-> k, itemsize |-> n, isbuiltin |-> TRUE, fields |-> <<>>, obj |-> 0]

Field(n, d, o) == [name |-> n, dtype |-> d, offset |-> o]

Structured(n, fs, id) ==
    [kind |-> "V", itemsize |-> n, isbuiltin |-> FALSE, fields |-> fs, obj |-> id]

\* values that stand where a dtype may: Python's None and loopy's lp.auto
None == [kind |-> "None", itemsize |-> 0, isbuiltin |-> FALSE, fields |-> <<>>, obj |-> 0]
auto == [kind |-> "auto", itemsize |-> 0, isbuiltin |-> FALSE, fields |-> <<>>, obj |-> 0]

bool_ == Native("b", 1)
int8 == Native("i", 1)
int16 == Native("i", 2)
int32 == Native("i", 4)
int64 == Native("i", 8)
uint8 == Native("u", 1)
uint16 == Native("u", 2)
uint32 == Native("u", 4)
uint64 == Native("u", 8)
float16 == Native("f", 2)
float32 == Native("f", 4)
float64 == Native("f", 8)
complex64 == Native("c", 8)
complex128 == Native("c", 16)

SignedInts == {int8, int16, int32, int64}
UnsignedInts == {uint8, uint16, uint32, uint64}
Floats == {float16, float32, float64}
Complexes == {complex64, complex128}
NativeDtypes == {bool_} \cup SignedInts \cup UnsignedInts \cup Floats \cup Complexes

\* record dtypes: two separately constructed objects of one structure, and
\* one of another structure
recA1 == Structured(8, <<Field("re", float32, 0), Field("im", float32, 4)>>, 1)
recA2 == Structured(8, <<Field("re", float32, 0), Field("im", float32, 4)>>, 2)
recB == Structured(8, <<Field("re", float32, 0), Field("im", int32, 4)>>, 3)
RecordDtypes == {recA1, recA2, recB}

\* Python's "is" and numpy's dtype "=="
Is(a, b) == a = b
DtypeEq(a, b) ==
    /\ a.kind = b.kind
    /\ a.itemsize = b.itemsize
    /\ a.isbuiltin = b.isbuiltin
    /\ a.fields = b.fields

(***************************************************************************)
(* Outcomes of a call: a returned dtype or a raised exception.             *)
(***************************************************************************)
Return(d) == [exc |-> "none", msg |-> "", dtype |-> d, name |-> ""]
Raise(e, m, n) == [exc |-> e, msg |-> m, dtype |-> None, name |-> n]
NotCalled == [exc |-> "notcalled", msg |-> "", dtype |-> None, name |-> ""]

TypeInferenceFailure(m) == Raise("TypeInferenceFailure", m, "")
DependencyTypeInferenceFailure(m, n) == Raise("DependencyTypeInferenceFailure", m, n)

Max(a, b) == IF a >= b THEN a ELSE b

(***************************************************************************)
(* (np.empty(0, dtype=a) + np.empty(0, dtype=b)).dtype for builtin a, b:   *)
(* numpy's promotion of two array dtypes.                                  *)
(***************************************************************************)
\* the smallest float holding every value of an integer of n bytes
FloatFor(n) == IF n = 1 THEN 2 ELSE IF n = 2 THEN 4 ELSE 8

\* the float precision (bytes of one component) a dtype asks for
Precision(d) ==
    CASE d.kind = "b" -> 0
      [] d.kind \in {"i", "u"} -> FloatFor(d.itemsize)
      [] d.kind = "f" -> d.itemsize
      [] d.kind = "c" -> d.itemsize \div 2

NumpyAdd(a, b) ==
    CASE a.kind = "b" -> b
      [] b.kind = "b" -> a
      [] a.kind = "c" \/ b.kind = "c" ->
            Native("c", 2 * Max(Precision(a), Precision(b)))
      [] a.kind = "f" \/ b.kind = "f" ->
            Native("f", Max(Precision(a), Precision(b)))
      [] a.kind = b.kind -> Native(a.kind, Max(a.itemsize, b.itemsize))
      [] OTHER ->
            LET s == IF a.kind = "i" THEN a ELSE b
                u == IF a.kind = "u" THEN a ELSE b
            IN  IF u.itemsize < s.itemsize THEN s
                ELSE IF u.itemsize < 8 THEN Native("i", 2 * u.itemsize)
                ELSE float64

(***************************************************************************)
(* TypeInferenceMapper.combine                                             *)
(***************************************************************************)
\* one pass of the while loop's body: the new result, or the failure
combineStep(result, other) ==
    IF result.isbuiltin /\ other.isbuiltin
    THEN IF \/ (DtypeEq(result, int32) /\ DtypeEq(other, float32))
            \/ (DtypeEq(result, float32) /\ DtypeEq(other, int32))
         THEN Return(float32)
         ELSE Return(NumpyAdd(result, other))
    ELSE IF result.isbuiltin /\ ~other.isbuiltin
    THEN Return(other)
    ELSE IF ~result.isbuiltin /\ other.isbuiltin
    THEN Return(result)
    ELSE IF ~Is(result, other)
         THEN TypeInferenceFailure("nothing known about result of operation")
         ELSE Return(result)

RECURSIVE combineLoop(_, _)
combineLoop(result, rest) ==
    IF rest = <<>>
    THEN Return(result)
    ELSE LET step == combineStep(result, rest[Len(rest)])
         IN  IF step.exc # "none"
             THEN step
             ELSE combineLoop(step.dtype, SubSeq(rest, 1, Len(rest) - 1))

combine(ds) ==
    IF ds = <<>>
    THEN Raise("IndexError", "pop from empty list", "")
    ELSE combineLoop(ds[Len(ds)], SubSeq(ds, 1, Len(ds) - 1))

(***************************************************************************)
(* Specification of combine: a sequence of dtypes is drawn, combine runs.  *)
(***************************************************************************)
CombineDtypes == NativeDtypes \cup RecordDtypes

SeqsUpTo(S, n) == UNION {[1..k -> S] : k \in 1..n}

NoKernel == [inames |-> {}]

InitCombine ==
    /\ dtypes \in SeqsUpTo(CombineDtypes, MaxLen)
    /\ dtype = None
    /\ target = "none"
    /\ type_context = "notcalled"
    /\ kernel = NoKernel
    /\ new_assignments = <<>>
    /\ expr = <<>>
    /\ outcome = NotCalled
    /\ pc = "call"
    /\ seen = <<>>
    /\ resolved = <<>>

Combine ==
    /\ pc = "call"
    /\ outcome' = combine(dtypes)
    /\ pc' = "done"
    /\ UNCHANGED <<dtypes, dtype, target, type_context, kernel, new_assignments,
                   expr, seen, resolved>>

NextCombine == Combine

SpecCombine == InitCombine /\ [][NextCombine]_vars

Reorderings(s) ==
    {[i \in 1..Len(s) |-> s[p[i]]] :
        p \in {q \in [1..Len(s) -> 1..Len(s)] : \A i, j \in 1..Len(s) : q[i] = q[j] => i = j}}

C1_NativePairsCommute ==
    (pc = "done" /\ Len(dtypes) = 2 /\ \A i \in 1..2 : dtypes[i].isbuiltin)
        => combine(<<dtypes[2], dtypes[1]>>) = outcome

\* C2: two foreign dtypes combine to that dtype exactly when they are
\* structurally equal (also when they are two objects), and fail with the
\* type mismatch exactly when they differ in structure.
C2_ForeignStructuralEquality ==
    (pc = "done" /\ Len(dtypes) = 2 /\ ~dtypes[1].isbuiltin /\ ~dtypes[2].isbuiltin)
        => IF DtypeEq(dtypes[1], dtypes[2])
           THEN outcome.exc = "none" /\ DtypeEq(outcome.dtype, dtypes[1])
           ELSE outcome.exc = "TypeInferenceFailure"

(***************************************************************************)
(* dtype_to_type_context                                                   *)
(***************************************************************************)
\* the vector dtypes of the OpenCL target: a base dtype and a count; the
\* first field is x
VectorBases == (SignedInts \cup UnsignedInts \cup {float32, float64})
VectorCounts == {2, 3, 4}

VectorFields(base, n) ==
    [i \in 1..n |-> Field(<<"x", "y", "z", "w">>[i], base, (i - 1) * base.itemsize)]

Vector(base, n) ==
    Structured(base.itemsize * (IF n = 3 THEN 4 ELSE n), VectorFields(base, n),
               100 * n + 10 * base.itemsize
                   + (CASE base.kind = "i" -> 1 [] base.kind = "u" -> 2 [] OTHER -> 3))

VectorDtypes == {Vector(b, n) : b \in VectorBases, n \in VectorCounts}

Targets == {"opencl", "c"}

\* target.is_vector_dtype(dtype): the C target has no vector dtypes
is_vector_dtype(t, d) ==
    t = "opencl" /\ \E v \in VectorDtypes : DtypeEq(v, d)

\* name in dtype.fields, and dtype.fields[name][0]
HasField(d, n) == \E i \in 1..Len(d.fields) : d.fields[i].name = n

FieldOf(d, n) == d.fields[CHOOSE i \in 1..Len(d.fields) : d.fields[i].name = n].dtype

RECURSIVE dtype_to_type_context(_, _)
dtype_to_type_context(t, d) ==
    IF d.kind = "i" THEN "i"
    ELSE IF DtypeEq(d, float64) \/ DtypeEq(d, complex128) THEN "d"
    ELSE IF DtypeEq(d, float32) \/ DtypeEq(d, complex64) THEN "f"
    ELSE IF is_vector_dtype(t, d) THEN dtype_to_type_context(t, FieldOf(d, "x"))
    ELSE "None"

ClassifyDtypes == NativeDtypes \cup RecordDtypes \cup VectorDtypes

InitClassify ==
    /\ dtypes = <<>>
    /\ dtype \in ClassifyDtypes
    /\ target \in Targets
    /\ type_context = "notcalled"
    /\ kernel = NoKernel
    /\ new_assignments = <<>>
    /\ expr = <<>>
    /\ outcome = NotCalled
    /\ pc = "call"
    /\ seen = <<>>
    /\ resolved = <<>>

Classify ==
    /\ pc = "call"
    /\ type_context' = dtype_to_type_context(target, dtype)
    /\ pc' = "done"
    /\ UNCHANGED <<dtypes, dtype, target, kernel, new_assignments, expr, outcome,
                   seen, resolved>>

NextClassify == Classify

SpecClassify == InitClassify /\ [][NextClassify]_vars

\* the classification the contract gives a dtype on a target
RECURSIVE Classification(_, _)
Classification(t, d) ==
    IF d.kind \in {"i", "u"} THEN "i"
    ELSE IF d \in {float64, complex128} THEN "d"
    ELSE IF d \in {float32, complex64} THEN "f"
    ELSE IF is_vector_dtype(t, d) THEN Classification(t, d.fields[1].dtype)
    ELSE "None"

\* C9: classify never fails and gives integer for every signed or unsigned
\* integer dtype, double for float64/complex128, single for
\* float32/complex64, the class of the x field for a vector dtype, and none
\* for everything else.
C9_ClassifyTotal ==
    pc = "done" => type_context = Classification(target, dtype)

(***************************************************************************)
(* Python integers: a sign and a magnitude of 16-bit limbs, least          *)
(* significant first, without leading zero limbs (unbounded, as in Python).*)
(***************************************************************************)
Limb == 256 * 256

Long(neg, mag) == [neg |-> neg, mag |-> mag]

FromNat(n) ==
    Long(FALSE, IF n = 0 THEN <<>>
               ELSE IF n < Limb THEN <<n>>
               ELSE <<n % Limb, n \div Limb>>)

\* 2^k, 2^k - 1 and 2^k + 1 (k >= 1)
TwoTo(k) ==
    [i \in 1..(k \div 16 + 1) |-> IF i = k \div 16 + 1 THEN 2 ^ (k % 16) ELSE 0]
TwoToLess1(k) ==
    IF k % 16 = 0
    THEN [i \in 1..(k \div 16) |-> Limb - 1]
    ELSE [i \in 1..(k \div 16 + 1) |->
            IF i = k \div 16 + 1 THEN 2 ^ (k % 16) - 1 ELSE Limb - 1]
TwoToPlus1(k) == [TwoTo(k) EXCEPT ![1] = @ + 1]

MagLess(a, b) ==
    \/ Len(a) < Len(b)
    \/ /\ Len(a) = Len(b)
       /\ \E i \in 1..Len(a) :
            /\ a[i] < b[i]
            /\ \A j \in (i + 1)..Len(a) : a[j] = b[j]

\* a < b, a <= b and abs(a) on Python integers
IntLess(a, b) ==
    IF a.neg /\ ~b.neg THEN TRUE
    ELSE IF ~a.neg /\ b.neg THEN FALSE
    ELSE IF a.neg THEN MagLess(b.mag, a.mag)
    ELSE MagLess(a.mag, b.mag)
IntLE(a, b) == ~IntLess(b, a)
Abs(a) == Long(FALSE, a.mag)

\* np.iinfo(tp).min and np.iinfo(tp).max of a signed integer dtype
iinfo_min(tp) == Long(TRUE, TwoTo(8 * tp.itemsize - 1))
iinfo_max(tp) == Long(FALSE, TwoToLess1(8 * tp.itemsize - 1))

(***************************************************************************)
(* Literals (the values of Constant nodes).  cls is the Python class:      *)
(* int, np.integer (a sized numpy integer scalar), float, np.inexact (a    *)
(* sized numpy float or complex scalar), complex, str.  int is the value   *)
(* of an integer; dtype the dtype attribute of a numpy scalar; narrow says *)
(* whether np.complex64(v) == np.complex128(v).                            *)
(***************************************************************************)
Literal(c, v, d, n) == [cls |-> c, int |-> v, dtype |-> d, narrow |-> n]

NoLiteral == Literal("none", FromNat(0), None, FALSE)
PyInt(v) == Literal("int", v, None, FALSE)
NpInt(v, d) == Literal("np.integer", v, d, FALSE)
PyFloat == Literal("float", FromNat(0), None, FALSE)
NpInexact(d) == Literal("np.inexact", FromNat(0), d, FALSE)
PyComplex(n) == Literal("complex", FromNat(0), None, n)
PyStr == Literal("str", FromNat(0), None, FALSE)

\* loopy.tools.is_integer
is_integer(v) == v.cls \in {"int", "np.integer"}

(***************************************************************************)
(* Expressions (pymbolic nodes).                                           *)
(***************************************************************************)
Node(o, n, v, cs) == [op |-> o, name |-> n, value |-> v, children |-> cs]

Constant(v) == Node("Constant", "", v, <<>>)
Variable(n) == Node("Variable", n, NoLiteral, <<>>)
TaggedVariable(n) == Node("TaggedVariable", n, NoLiteral, <<>>)
Sum(cs) == Node("Sum", "", NoLiteral, cs)
Product(cs) == Node("Product", "", NoLiteral, cs)
Quotient(n, d) == Node("Quotient", "", NoLiteral, <<n, d>>)
Subscript(a, i) == Node("Subscript", "", NoLiteral, <<a, i>>)
LinearSubscript(a, i) == Node("LinearSubscript", "", NoLiteral, <<a, i>>)
Lookup(a, n) == Node("Lookup", n, NoLiteral, <<a>>)
Call(f, ps) == Node("Call", f, NoLiteral, ps)
Comparison(l, r) == Node("Comparison", "", NoLiteral, <<l, r>>)
LogicalNot(c) == Node("LogicalNot", "", NoLiteral, <<c>>)
LogicalAnd(cs) == Node("LogicalAnd", "", NoLiteral, cs)
LogicalOr(cs) == Node("LogicalOr", "", NoLiteral, cs)
Reduction(o, e) == Node("Reduction", o, NoLiteral, <<e>>)

(***************************************************************************)
(* The kernel and its declared entities.                                   *)
(***************************************************************************)
TemporaryVariable(d) == [cls |-> "TemporaryVariable", dtype |-> d]
KernelArgument(d) == [cls |-> "KernelArgument", dtype |-> d]
\* what dict.get answers for a name the dict does not hold
Absent == [cls |-> "NoneType", dtype |-> None]

\* kernel.mangle_symbol(name): the dtype of a special symbol, or None
mangle_symbol(k, n) == k.symbols[n]

\* kernel.mangle_function(identifier, arg_dtypes): the result dtype, or None.
\* A known function yields the dtype of its first argument.
mangle_function(k, f, arg_dtypes) ==
    IF f \in k.functions /\ arg_dtypes # <<>> THEN arg_dtypes[1] ELSE None

\* expr.operation.result_dtype(target, arg_dtype, inames) of a scalar
\* reduction: the dtype of the operand
result_dtype(o, t, arg_dtype) == arg_dtype

(***************************************************************************)
(* TypeInferenceMapper: rec dispatches on the node's class; an exception   *)
(* raised while a child is inferred leaves the handler at once.            *)
(***************************************************************************)
RECURSIVE rec(_, _, _)

\* [self.rec(c) for c in cs], and the exception that ends it early, if any
recAll(k, na, cs) == [i \in 1..Len(cs) |-> rec(k, na, cs[i])]
Raised(rs) == {i \in 1..Len(rs) : rs[i].exc # "none"}
FirstRaised(rs) == rs[CHOOSE i \in Raised(rs) : \A j \in Raised(rs) : i <= j]

\* is_integer(child) and abs(child) < 1024
SmallLimit == 1024
IsSmallInteger(child) ==
    /\ child.op = "Constant"
    /\ is_integer(child.value)
    /\ IntLess(Abs(child.value.int), FromNat(SmallLimit))

map_sum(k, na, e) ==
    LET rs == recAll(k, na, e.children)
        pairs == [i \in 1..Len(rs) |-> [child |-> e.children[i], dtype |-> rs[i].dtype]]
        Small(p) == IsSmallInteger(p.child)
        Other(p) == ~IsSmallInteger(p.child)
        DtypesOf(ps) == [i \in 1..Len(ps) |-> ps[i].dtype]
        ds == DtypesOf(SelectSeq(pairs, Other))
        small_integer_dtypes == DtypesOf(SelectSeq(pairs, Small))
    IN  IF Raised(rs) # {}
        THEN FirstRaised(rs)
        ELSE IF \A i \in 1..Len(ds) : ds[i].kind = "i"
             THEN combine(ds \o small_integer_dtypes)
             ELSE combine(ds)

map_product(k, na, e) == map_sum(k, na, e)

\* map_quotient taking only signed integers for integers, as map_sum does
map_quotient_signed_only(k, na, e) ==
    LET rs == recAll(k, na, e.children)
        n_dtype == rs[1].dtype
        d_dtype == rs[2].dtype
    IN  IF Raised(rs) # {}
        THEN FirstRaised(rs)
        ELSE IF n_dtype.kind = "i" /\ d_dtype.kind = "i"
             THEN Return(float64)
             ELSE combine(<<n_dtype, d_dtype>>)

map_quotient(k, na, e) ==
    LET rs == recAll(k, na, e.children)
        n_dtype == rs[1].dtype
        d_dtype == rs[2].dtype
    IN  IF Raised(rs) # {}
        THEN FirstRaised(rs)
        ELSE IF n_dtype.kind \in {"i", "u"} /\ d_dtype.kind \in {"i", "u"}
             THEN Return(float64)
             ELSE combine(<<n_dtype, d_dtype>>)

\* map_constant comparing with iinfo.max by < instead of <=
map_constant_strict(e) ==
    LET v == e.value
        Fits(tp) == IntLE(iinfo_min(tp), v.int) /\ IntLess(v.int, iinfo_max(tp))
    IN  IF is_integer(v)
        THEN IF Fits(int32) THEN Return(int32)
             ELSE IF Fits(int64) THEN Return(int64)
             ELSE TypeInferenceFailure("integer constant too large")
        ELSE IF v.cls = "np.inexact" THEN Return(v.dtype)
        ELSE IF v.cls = "float" THEN Return(float32)
        ELSE IF v.cls = "complex"
             THEN IF v.narrow
                  THEN Return(complex64)
                  ELSE TypeInferenceFailure("Complex constant needs to be sized")
        ELSE TypeInferenceFailure("Cannot deduce type of constant")

map_constant(e) ==
    LET v == e.value
        Fits(tp) == IntLE(iinfo_min(tp), v.int) /\ IntLE(v.int, iinfo_max(tp))
    IN  IF is_integer(v)
        THEN IF Fits(int32) THEN Return(int32)
             ELSE IF Fits(int64) THEN Return(int64)
             ELSE TypeInferenceFailure("integer constant too large")
        ELSE IF v.cls = "np.inexact" THEN Return(v.dtype)
        ELSE IF v.cls = "float" THEN Return(float32)
        ELSE IF v.cls = "complex"
             THEN IF v.narrow
                  THEN Return(complex64)
                  ELSE TypeInferenceFailure("Complex constant needs to be sized")
        ELSE TypeInferenceFailure("Cannot deduce type of constant")

\* map_subscript inferring the index instead of the aggregate
map_subscript_index(k, na, e) == rec(k, na, e.children[2])

map_subscript(k, na, e) == rec(k, na, e.children[1])

map_linear_subscript(k, na, e) == rec(k, na, e.children[1])

map_call(k, na, e) ==
    LET rs == recAll(k, na, e.children)
        arg_dtypes == [i \in 1..Len(rs) |-> rs[i].dtype]
        mangle_result == mangle_function(k, e.name, arg_dtypes)
    IN  IF Raised(rs) # {}
        THEN FirstRaised(rs)
        ELSE IF mangle_result # None
             THEN Return(mangle_result)
             ELSE Raise("RuntimeError", "no type inference information on function", "")

\* what map_variable does with the object found for a name
DtypeOfObject(obj, n) ==
    IF obj = Absent
    THEN TypeInferenceFailure("name not known in type inference")
    ELSE IF obj.cls = "TemporaryVariable"
    THEN IF obj.dtype = auto
         THEN DependencyTypeInferenceFailure("temporary variable", n)
         ELSE Return(obj.dtype)
    ELSE IF obj.cls = "KernelArgument"
    THEN IF obj.dtype = None
         THEN DependencyTypeInferenceFailure("argument", n)
         ELSE Return(obj.dtype)
    ELSE Raise("RuntimeError", "unexpected type inference object type", "")

\* map_variable asking the kernel's tables before new_assignments
map_variable_kernel_first(k, na, e) ==
    IF e.name \in k.inames
    THEN Return(k.index_dtype)
    ELSE IF mangle_symbol(k, e.name) # None
    THEN Return(mangle_symbol(k, e.name))
    ELSE DtypeOfObject(IF k.arg_dict[e.name] # Absent THEN k.arg_dict[e.name]
                       ELSE IF k.temporary_variables[e.name] # Absent
                            THEN k.temporary_variables[e.name]
                       ELSE na[e.name], e.name)

\* map_variable asking mangle_symbol before all_inames
map_variable_symbol_first(k, na, e) ==
    IF mangle_symbol(k, e.name) # None
    THEN Return(mangle_symbol(k, e.name))
    ELSE IF e.name \in k.inames
    THEN Return(k.index_dtype)
    ELSE DtypeOfObject(IF na[e.name] # Absent THEN na[e.name]
                       ELSE IF k.arg_dict[e.name] # Absent THEN k.arg_dict[e.name]
                       ELSE k.temporary_variables[e.name], e.name)

map_variable(k, na, e) ==
    IF e.name \in k.inames
    THEN Return(k.index_dtype)
    ELSE IF mangle_symbol(k, e.name) # None
    THEN Return(mangle_symbol(k, e.name))
    ELSE DtypeOfObject(IF na[e.name] # Absent THEN na[e.name]
                       ELSE IF k.arg_dict[e.name] # Absent THEN k.arg_dict[e.name]
                       ELSE k.temporary_variables[e.name], e.name)

map_tagged_variable(k, na, e) == map_variable(k, na, e)

map_lookup(k, na, e) ==
    LET agg_result == rec(k, na, e.children[1])
    IN  IF agg_result.exc # "none"
        THEN agg_result
        ELSE IF agg_result.dtype.fields = <<>>
        THEN Raise("TypeError", "'NoneType' object is not subscriptable", "")
        ELSE IF ~HasField(agg_result.dtype, e.name)
        THEN Raise("KeyError", e.name, "")
        ELSE Return(FieldOf(agg_result.dtype, e.name))

map_comparison(k, na, e) == Return(int32)

map_logical_not(k, na, e) == map_comparison(k, na, e)
map_logical_and(k, na, e) == map_comparison(k, na, e)
map_logical_or(k, na, e) == map_comparison(k, na, e)

map_reduction(k, na, e) ==
    LET arg == rec(k, na, e.children[1])
    IN  IF arg.exc # "none"
        THEN arg
        ELSE Return(result_dtype(e.name, k.target, arg.dtype))

rec(k, na, e) ==
    CASE e.op = "Sum" -> map_sum(k, na, e)
      [] e.op = "Product" -> map_product(k, na, e)
      [] e.op = "Quotient" -> map_quotient(k, na, e)
      [] e.op = "Constant" -> map_constant(e)
      [] e.op = "Subscript" -> map_subscript(k, na, e)
      [] e.op = "LinearSubscript" -> map_linear_subscript(k, na, e)
      [] e.op = "Call" -> map_call(k, na, e)
      [] e.op = "Variable" -> map_variable(k, na, e)
      [] e.op = "TaggedVariable" -> map_tagged_variable(k, na, e)
      [] e.op = "Lookup" -> map_lookup(k, na, e)
      [] e.op = "Comparison" -> map_comparison(k, na, e)
      [] e.op = "LogicalNot" -> map_logical_not(k, na, e)
      [] e.op = "LogicalAnd" -> map_logical_and(k, na, e)
      [] e.op = "LogicalOr" -> map_logical_or(k, na, e)
      [] e.op = "Reduction" -> map_reduction(k, na, e)

(***************************************************************************)
(* Kernels.  The base kernel declares one argument of every dtype, an      *)
(* argument without dtype, a temporary whose dtype is lp.auto, and the     *)
(* loop index i; the name x is declared the ways XKernels enumerates.      *)
(***************************************************************************)
ArgDtypes ==
    { <<"b", bool_>>, <<"i8", int8>>, <<"i16", int16>>, <<"i32", int32>>,
      <<"i64", int64>>, <<"u8", uint8>>, <<"u16", uint16>>, <<"u32", uint32>>,
      <<"u64", uint64>>, <<"f16", float16>>, <<"f32", float32>>,
      <<"f64", float64>>, <<"c64", complex64>>, <<"c128", complex128>>,
      <<"rA1", recA1>>, <<"rA2", recA2>>, <<"rB", recB>>,
      <<"v4", Vector(float64, 4)>> }

TypedNames == {p[1] : p \in ArgDtypes}
Names == TypedNames \cup {"a_none", "t_auto", "i", "x", "nope"}
FunctionNames == {"sin", "nofn"}

BaseArgs ==
    [n \in Names |->
        IF n \in TypedNames
        THEN KernelArgument((CHOOSE p \in ArgDtypes : p[1] = n)[2])
        ELSE IF n = "a_none" THEN KernelArgument(None)
        ELSE Absent]

BaseTemporaries ==
    [n \in Names |-> IF n = "t_auto" THEN TemporaryVariable(auto) ELSE Absent]

\* the kernel in which x is: a loop index or not, a special symbol of dtype
\* sym or not (None), declared as arg and as tmp
KernelWith(isIname, sym, arg, tmp) ==
    [inames |-> IF isIname THEN {"i", "x"} ELSE {"i"},
     index_dtype |-> int32,
     symbols |-> [n \in Names |-> IF n = "x" THEN sym ELSE None],
     arg_dict |-> [BaseArgs EXCEPT !["x"] = arg],
     temporary_variables |-> [BaseTemporaries EXCEPT !["x"] = tmp],
     functions |-> {"sin"},
     target |-> "opencl"]

BaseKernel == KernelWith(FALSE, None, Absent, Absent)

XKernels ==
    {KernelWith(isIname, sym, arg, tmp) :
        isIname \in BOOLEAN,
        sym \in {None, uint32},
        arg \in {Absent, KernelArgument(None), KernelArgument(complex64)},
        tmp \in {Absent, TemporaryVariable(auto), TemporaryVariable(int8)}}

\* TypeInferenceMapper.__init__: new_assignments=None stands for {}
NoAssignments == [n \in Names |-> Absent]

XAssignments ==
    {[NoAssignments EXCEPT !["x"] = obj] :
        obj \in {Absent, TemporaryVariable(auto), TemporaryVariable(float32),
                 KernelArgument(None), KernelArgument(float64)}}

(***************************************************************************)
(* The expressions inferred.                                               *)
(***************************************************************************)
Powers == {10, 31, 40, 63, 70}

IntValues ==
    {FromNat(0), FromNat(3), FromNat(500)}
    \cup {Long(neg, mag) : neg \in BOOLEAN,
            mag \in UNION {{TwoTo(k), TwoToLess1(k), TwoToPlus1(k)} : k \in Powers}}

Literals ==
    {PyInt(v) : v \in IntValues}
    \cup {NpInt(FromNat(5), int64), NpInt(Long(FALSE, TwoTo(63)), uint64),
          PyFloat, NpInexact(float64), NpInexact(complex128),
          PyComplex(TRUE), PyComplex(FALSE), PyStr}

Constants == {Constant(v) : v \in Literals}
Variables == {Variable(n) : n \in Names} \cup {TaggedVariable(n) : n \in {"f32", "t_auto", "i"}}

Lit(n) == Constant(PyInt(FromNat(n)))
NegLit(n) == Constant(PyInt(Long(TRUE, FromNat(n).mag)))
BigLit == Constant(PyInt(Long(FALSE, TwoTo(40))))

SumLeaves ==
    {Variable(n) : n \in {"i32", "i64", "u8", "u32", "f32", "f64", "t_auto"}}
    \cup {Lit(3), Lit(1023), NegLit(1024), BigLit}

ProductLeaves ==
    {Variable(n) : n \in {"i32", "u32", "f64", "t_auto"}}
    \cup {NegLit(1023), Lit(1024)}

Sums == {Sum(cs) : cs \in SeqsUpTo(SumLeaves, MaxChildren)}
Products == {Product(cs) : cs \in SeqsUpTo(ProductLeaves, MaxChildren)}

QuotientLeaves ==
    {Variable(n) : n \in TypedNames \cup {"t_auto", "a_none"}}
    \cup {Lit(3), Constant(PyFloat)}

Quotients == {Quotient(n, d) : n \in QuotientLeaves, d \in QuotientLeaves}

Leaves ==
    {Variable(n) : n \in {"f32", "i32", "t_auto", "a_none", "nope", "rA1", "v4"}}
    \cup {Lit(3)}

FieldNames == {"re", "x", "zz"}

Others(cs) ==
    {Subscript(a, i) : a \in cs, i \in Leaves}
    \cup {Subscript(a, i) : a \in Leaves, i \in cs}
    \cup {LinearSubscript(a, i) : a \in cs, i \in Leaves}
    \cup {LinearSubscript(a, i) : a \in Leaves, i \in cs}
    \cup {Lookup(a, n) : a \in cs, n \in FieldNames}
    \cup {Call(f, <<>>) : f \in FunctionNames}
    \cup {Call(f, <<a>>) : f \in FunctionNames, a \in cs}
    \cup {Call(f, <<a, b>>) : f \in FunctionNames, a \in cs, b \in Leaves}
    \cup {Call(f, <<a, b>>) : f \in FunctionNames, a \in Leaves, b \in cs}
    \cup {Comparison(l, r) : l \in cs, r \in Leaves}
    \cup {Comparison(l, r) : l \in Leaves, r \in cs}
    \cup {LogicalNot(c) : c \in cs}
    \cup {LogicalAnd(<<l, r>>) : l \in cs, r \in Leaves}
    \cup {LogicalOr(<<l, r>>) : l \in Leaves, r \in cs}
    \cup {Reduction("sum", c) : c \in cs}

\* nodes that stand as children of the nested expressions
Inner ==
    {Sum(<<Variable("t_auto"), Lit(3)>>), Sum(<<Variable("f64"), Lit(3)>>),
     Sum(<<Variable("nope"), Lit(3)>>), Quotient(Variable("i32"), Variable("i32")),
     Quotient(Variable("a_none"), Variable("f32")),
     Comparison(Variable("t_auto"), Variable("i32")),
     Subscript(Variable("f32"), Variable("a_none")),
     Subscript(Variable("t_auto"), Variable("i32")),
     Lookup(Variable("rA1"), "re"), Call("sin", <<Variable("f32")>>),
     Reduction("sum", Variable("a_none"))}

Nested ==
    Others(Inner)
    \cup {Sum(<<a, b>>) : a \in Inner, b \in Leaves}
    \cup {Product(<<a, b>>) : a \in Leaves, b \in Inner}
    \cup {Quotient(a, b) : a \in Inner, b \in Leaves}
    \cup {Quotient(a, b) : a \in Leaves, b \in Inner}

Exprs ==
    Constants \cup Variables \cup Sums \cup Products \cup Quotients
    \cup Others(Leaves) \cup Nested

XExprs ==
    {Variable("x"), TaggedVariable("x"), Sum(<<Variable("x"), Lit(3)>>),
     Subscript(Variable("x"), Variable("i"))}

(***************************************************************************)
(* Specification of inference: a mapper is constructed over a kernel and   *)
(* pending assignments; infer is called on an expression, any number of    *)
(* times; after a DependencyTypeInferenceFailure the driver declares the   *)
(* name it carries in new_assignments and infers again.                    *)
(***************************************************************************)
InitInfer ==
    /\ dtypes = <<>>
    /\ dtype = None
    /\ target = "none"
    /\ type_context = "notcalled"
    /\ \/ kernel = BaseKernel /\ new_assignments = NoAssignments /\ expr \in Exprs
       \/ kernel \in XKernels /\ new_assignments \in XAssignments /\ expr \in XExprs
    /\ outcome = NotCalled
    /\ pc = "infer"
    /\ seen = <<>>
    /\ resolved = <<>>

\* an infer call that keeps what it found out about an undetermined name
\* in new_assignments
InferCaching ==
    /\ Len(seen) < MaxCalls
    /\ outcome' = rec(kernel, new_assignments, expr)
    /\ seen' = Append(seen, outcome')
    /\ new_assignments' =
            IF outcome'.exc = "DependencyTypeInferenceFailure"
            THEN [new_assignments EXCEPT ![outcome'.name] = TemporaryVariable(int32)]
            ELSE new_assignments
    /\ UNCHANGED <<dtypes, dtype, target, type_context, kernel, expr, pc, resolved>>

\* one call of the mapper on the expression; seen keeps the outcomes of
\* the calls made on these inputs
Infer ==
    /\ Len(seen) < MaxCalls
    /\ outcome' = rec(kernel, new_assignments, expr)
    /\ seen' = Append(seen, outcome')
    /\ UNCHANGED <<dtypes, dtype, target, type_context, kernel, new_assignments,
                   expr, pc, resolved>>

ResolvedEntities == {TemporaryVariable(float32), KernelArgument(int64)}

\* the driver has found the dtype of the name the last failure carried
Resolve(obj) ==
    /\ outcome.exc = "DependencyTypeInferenceFailure"
    /\ new_assignments' = [new_assignments EXCEPT ![outcome.name] = obj]
    /\ resolved' = Append(resolved, [name |-> outcome.name, dtype |-> obj.dtype])
    /\ outcome' = NotCalled
    /\ seen' = <<>>
    /\ UNCHANGED <<dtypes, dtype, target, type_context, kernel, expr, pc>>

NextInfer == Infer \/ \E obj \in ResolvedEntities : Resolve(obj)

SpecInfer == InitInfer /\ [][NextInfer]_vars

(***************************************************************************)
(* Properties of inference.                                                *)
(***************************************************************************)
\* outcome is that of an infer call on the present inputs
Called == seen # <<>>

IsVariable(e) == e.op \in {"Variable", "TaggedVariable"}
IntegerKind(d) == d.kind \in {"i", "u"}
Unresolved(o) == o.exc = "DependencyTypeInferenceFailure"

ChildOutcomes == recAll(kernel, new_assignments, expr.children)
ChildDtypes == [i \in 1..Len(expr.children) |-> ChildOutcomes[i].dtype]

\* the subsequence of s at the indices in I, in order
RECURSIVE Pick(_, _)
Pick(s, I) ==
    IF s = <<>> THEN <<>>
    ELSE Pick(SubSeq(s, 1, Len(s) - 1), I)
            \o (IF Len(s) \in I THEN <<s[Len(s)]>> ELSE <<>>)

\* C3: a Sum or Product whose non-small-literal children all have integer
\* kind (signed or unsigned) infers to combine of the types of all children;
\* otherwise to combine of the types of the non-small-literal children.
C3_SmallLiteralFolding ==
    (Called /\ expr.op \in {"Sum", "Product"} /\ Raised(ChildOutcomes) = {})
        => LET rest == {i \in 1..Len(expr.children) : ~IsSmallInteger(expr.children[i])}
           IN  IF \A i \in rest : IntegerKind(ChildDtypes[i])
               THEN \E p \in Reorderings(ChildDtypes) : outcome = combine(p)
               ELSE \E p \in Reorderings(Pick(ChildDtypes, rest)) : outcome = combine(p)

\* the children whose inference a node's handler asks for
Inspected(e) ==
    IF e.op \in {"Subscript", "LinearSubscript"} THEN <<e.children[1]>>
    ELSE IF e.op \in {"Comparison", "LogicalNot", "LogicalAnd", "LogicalOr"} THEN <<>>
    ELSE e.children

\* one of the outcomes rs is unresolved and all the others are dtypes
OneUnresolved(rs) ==
    \E i \in 1..Len(rs) :
        /\ Unresolved(rs[i])
        /\ \A j \in 1..Len(rs) : j # i => rs[j].exc = "none"

TheUnresolved(rs) == rs[CHOOSE i \in 1..Len(rs) : Unresolved(rs[i])]

\* C4 as stated: whenever one child of a node (of any kind, at any place)
\* fails as unresolved and its other children infer, the node fails as
\* unresolved with the same name.
C4_PropagatesThroughEveryParent ==
    (Called /\ OneUnresolved(ChildOutcomes))
        => (Unresolved(outcome) /\ outcome.name = TheUnresolved(ChildOutcomes).name)

\* C4 amended: the failure propagates, with its name, through Sum, Product,
\* Quotient, Call arguments, the aggregate of a Subscript, LinearSubscript
\* or Lookup, and the operand of a Reduction; a subscript's index and the
\* operands of Comparison and the logical nodes are not inferred, so a
\* subscript infers to what its aggregate does and a comparison to int32.
C4_PropagatesThroughInspectedChildren ==
    Called =>
        LET rs == recAll(kernel, new_assignments, Inspected(expr))
        IN  /\ OneUnresolved(rs) =>
                (Unresolved(outcome) /\ outcome.name = TheUnresolved(rs).name)
            /\ expr.op \in {"Subscript", "LinearSubscript"} => outcome = ChildOutcomes[1]
            /\ expr.op \in {"Comparison", "LogicalNot", "LogicalAnd", "LogicalOr"}
                    => outcome = Return(int32)

C4_Witness ==
    /\ Called
    /\ expr.op = "Call"
    /\ Len(expr.children) = 2
    /\ expr.children[2].op = "Reduction"
    /\ Unresolved(outcome)
    /\ outcome.name = "a_none"

\* the object a name is bound to: the first of the pending assignments, the
\* arguments and the temporaries that holds it
Binding(k, na, n) ==
    LET tables == <<na, k.arg_dict, k.temporary_variables>>
        holding == {i \in 1..3 : tables[i][n] # Absent}
    IN  IF holding = {} THEN Absent
        ELSE tables[CHOOSE i \in holding : \A j \in holding : i <= j][n]

Undetermined(obj) ==
    \/ obj.cls = "TemporaryVariable" /\ obj.dtype = auto
    \/ obj.cls = "KernelArgument" /\ obj.dtype = None

Special(k, n) == n \in k.inames \/ k.symbols[n] # None

\* C5: a variable that is neither loop index nor special symbol and is bound
\* to a temporary of undetermined dtype or an argument without dtype fails as
\* unresolved with its own name; inferred again after the pending
\* assignments have come to declare that name with a dtype, it has that dtype.
C5_RetryProtocol ==
    (Called /\ IsVariable(expr)) =>
        /\ (~Special(kernel, expr.name)
              /\ Undetermined(Binding(kernel, new_assignments, expr.name)))
            => (Unresolved(outcome) /\ outcome.name = expr.name)
        /\ (resolved # <<>> /\ resolved[Len(resolved)].name = expr.name)
            => outcome = Return(resolved[Len(resolved)].dtype)

C5_Witness ==
    /\ Called
    /\ IsVariable(expr)
    /\ resolved # <<>>
    /\ resolved[Len(resolved)].name = expr.name
    /\ outcome.exc = "none"

C7_ResolutionOrder ==
    (Called /\ IsVariable(expr)) =>
        LET n == expr.name
            obj == Binding(kernel, new_assignments, n)
        IN  IF n \in kernel.inames THEN outcome = Return(kernel.index_dtype)
            ELSE IF kernel.symbols[n] # None THEN outcome = Return(kernel.symbols[n])
            ELSE IF obj = Absent
                 THEN outcome = TypeInferenceFailure("name not known in type inference")
            ELSE IF Undetermined(obj)
                 THEN Unresolved(outcome) /\ outcome.name = n
            ELSE outcome = Return(obj.dtype)

C7_Witness ==
    /\ Called
    /\ expr = Variable("x")
    /\ ~Special(kernel, "x")
    /\ new_assignments["x"] = TemporaryVariable(auto)
    /\ kernel.arg_dict["x"] = KernelArgument(complex64)
    /\ Unresolved(outcome)

\* C8: a Quotient of two integer-kind dtypes (signed or unsigned, any widths)
\* infers to float64, and any other Quotient to combine([numerator dtype,
\* denominator dtype]).
C8_Quotient ==
    (Called /\ expr.op = "Quotient" /\ Raised(ChildOutcomes) = {}) =>
        IF IntegerKind(ChildDtypes[1]) /\ IntegerKind(ChildDtypes[2])
        THEN outcome = Return(float64)
        ELSE outcome = combine(<<ChildDtypes[1], ChildDtypes[2]>>)

C8_Witness ==
    /\ Called
    /\ expr = Quotient(Variable("u8"), Variable("i64"))
    /\ outcome = Return(float64)

\* the number of bits of a magnitude
RECURSIVE Bits(_)
Bits(n) == IF n = 0 THEN 0 ELSE 1 + Bits(n \div 2)
BitLength(mag) == IF mag = <<>> THEN 0 ELSE 16 * (Len(mag) - 1) + Bits(mag[Len(mag)])

\* -2^(w-1) <= v <= 2^(w-1) - 1
InSignedRange(v, w) ==
    \/ BitLength(v.mag) <= w - 1
    \/ v.neg /\ v.mag = TwoTo(w - 1)

\* C10: an integer literal infers to int32 iff it lies in [-2^31, 2^31 - 1],
\* to int64 iff it lies outside that but in [-2^63, 2^63 - 1], and fails as
\* too large otherwise.
C10_ConstantSizing ==
    (Called /\ expr.op = "Constant" /\ is_integer(expr.value)) =>
        LET v == expr.value.int
        IN  /\ outcome = Return(int32) <=> InSignedRange(v, 32)
            /\ outcome = Return(int64) <=> (~InSignedRange(v, 32) /\ InSignedRange(v, 64))
            /\ outcome = TypeInferenceFailure("integer constant too large")
                    <=> ~InSignedRange(v, 64)

C10_Witness ==
    /\ Called
    /\ expr = Constant(PyInt(Long(FALSE, TwoTo(31))))
    /\ outcome = Return(int64)

====
